---- MODULE Spec2Model ----
(***************************************************************************)
(* Model of pareto_chart.py: the weighted sampler generate_synthetic_data, *)
(* the aggregator group_data, the renderer pareto_chart and the driver     *)
(* main.                                                                   *)
(*                                                                         *)
(* Python tuples (name, weight) and (name, count) are the TLA+ tuples      *)
(* <<name, weight>> and <<name, count>>; Python index i is TLA+ index i+1. *)
(* Floating-point quotients are modelled by exact rationals: a probability *)
(* weight / total_frequency is kept over the common denominator            *)
(* |total_frequency|, a percentage c / total * 100 is kept as a reduced    *)
(* fraction <<numerator, denominator>>.                                    *)
(***************************************************************************)
EXTENDS Integers, Sequences, FiniteSets, TLC

VARIABLES
    pc,            \* position of the caller (test, chart caller or main)
    categories,    \* argument of generate_synthetic_data: <<name, weight>> list
    num_samples,   \* argument of generate_synthetic_data
    data,          \* the sample list returned by generate_synthetic_data
    error,         \* the exception that ended the last call, or "none"
    grouped,       \* last call of group_data: [reverse, out], or NoCall
    previous,      \* the call of group_data before the last one, or NoCall
    chart_data,    \* argument of pareto_chart
    bars,          \* what ax1.bar was given: <<category, count>> per bar
    points,        \* what ax2.plot was given: <<category, percentage>> per point
    _frequency,    \* main's weight list
    calls,         \* names of the stages called so far, in call order
    ret            \* <<v>> once main has returned v, <<>> before

vars == <<pc, categories, num_samples, data, error, grouped, previous,
          chart_data, bars, points, _frequency, calls, ret>>

-----------------------------------------------------------------------------
(* Bounds of the model *)

\* largest num_samples the test caller passes
MaxSamples == 3
\* weights the test caller draws from: -MaxNegWeight .. MaxWeight
MaxWeight == 2
MaxNegWeight == 1
\* pareto_chart's caller passes at most MaxBars pairs with counts 0..MaxCount
MaxBars == 3
MaxCount == 2
\* in main, the sample list drawn is periodic with a period of at most MaxPeriod
MaxPeriod == 1
\* in main, random.shuffle draws freely in its first MaxShuffleSteps iterations
MaxShuffleSteps == 1

-----------------------------------------------------------------------------
(* Values *)

NoCall == [reverse |-> FALSE, out |-> <<"no call">>]
Names == <<"A", "B", "C">>

Range(s) == {s[i] : i \in 1..Len(s)}
SeqsOfLen(S, n) == [1..n -> S]
SeqsUpTo(S, n) == UNION {SeqsOfLen(S, k) : k \in 0..n}
Min(a, b) == IF a < b THEN a ELSE b

RECURSIVE GCD(_, _)
GCD(a, b) == IF b = 0 THEN a ELSE GCD(b, a % b)

\* Python's sum() over a list of integers
RECURSIVE sum(_)
sum(s) == IF s = <<>> THEN 0 ELSE s[1] + sum(Tail(s))

\* all orders in which a set can be iterated
RECURSIVE Orders(_)
Orders(S) ==
    IF S = {} THEN {<<>>}
    ELSE UNION {{<<x>> \o o : o \in Orders(S \ {x})} : x \in S}

-----------------------------------------------------------------------------
(* generate_synthetic_data *)

\* line 17
total_frequency(cats) == sum([i \in 1..Len(cats) |-> cats[i][2]])

\* line 19
category_names(cats) == [i \in 1..Len(cats) |-> cats[i][1]]

\* lines 18 and 20: the probabilities c[1] / total_frequency, each written over
\* the common denominator |total_frequency| (so they sum to 1)
category_probability(cats) ==
    LET t == total_frequency(cats)
    IN  [i \in 1..Len(cats) |-> IF t < 0 THEN 0 - cats[i][2] ELSE cats[i][2]]

\* random.choices accumulates the weights: cum_weights = list(accumulate(weights))
cum_weights(weights) ==
    [i \in 1..Len(weights) |-> sum(SubSeq(weights, 1, i))]

\* bisect.bisect_right(a, x, lo, hi), 0-based lo and hi as in Python
RECURSIVE bisect(_, _, _, _)
bisect(a, x, lo, hi) ==
    IF lo < hi
    THEN LET mid == (lo + hi) \div 2
         IN  IF x < a[mid + 1] THEN bisect(a, x, lo, mid)
                               ELSE bisect(a, x, mid + 1, hi)
    ELSE lo

\* The elements one draw of random.choices(population, weights) can return:
\* population[bisect(cum_weights, random() * total, 0, n - 1)].  random() * total
\* lies in [0, total).  The weights here are numerators over one denominator d,
\* so cum_weights are multiples of 1/d and every comparison x < cum_weights[mid]
\* is decided by the cell [x/d, (x+1)/d) the product falls in: x stands for it.
Drawable(population, weights) ==
    LET cum == cum_weights(weights)
        n == Len(population)
        total == cum[n]
    IN  {population[bisect(cum, x, 0, n - 1) + 1] : x \in 0..(total - 1)}

\* choices with a fault: one draw too many (k = num_samples + 1)
choices_one_more(population, weights, k, period) ==
    LET D == Drawable(population, weights)
    IN  {[i \in 1..(k + 1) |-> p[((i - 1) % Len(p)) + 1]] :
            p \in UNION {SeqsOfLen(D, m) : m \in 1..Min(k + 1, period)}}

\* random.choices(population, weights, k=k): the lists of k independent draws;
\* the lists enumerated are those of a period of at most `period`
choices(population, weights, k, period) ==
    LET D == Drawable(population, weights)
    IN  IF k = 0 THEN {<<>>}
        ELSE {[i \in 1..k |-> p[((i - 1) % Len(p)) + 1]] :
                 p \in UNION {SeqsOfLen(D, m) : m \in 1..Min(k, period)}}

\* lines 6-22: the exception raised, or the lists that can be returned
generate_synthetic_data(cats, k, period) ==
    IF cats = <<>>
    THEN \* line 21: random.choices reads cum_weights[-1] of an empty list
         [error |-> "IndexError", data |-> {}]
    ELSE IF total_frequency(cats) = 0
    THEN \* line 18: c[1] / total_frequency
         [error |-> "ZeroDivisionError", data |-> {}]
    ELSE [error |-> "none",
          data |-> choices(category_names(cats), category_probability(cats),
                           k, period)]

-----------------------------------------------------------------------------
(* group_data *)

\* list.count
count(s, x) == Cardinality({i \in 1..Len(s) : s[i] = x})

\* line 34: the list comprehension over `categories`
counted(s, cats) == [i \in 1..Len(cats) |-> <<cats[i], count(s, cats[i])>>]

\* whether x goes before y in sorted(..., key=lambda x: x[1], reverse=reverse);
\* equal keys keep their order, also with reverse=True
Before(x, y, reverse) == IF reverse THEN x[2] > y[2] ELSE x[2] < y[2]

\* insert x behind every element it does not go before (a stable sort)
RECURSIVE Insert(_, _, _)
Insert(s, x, reverse) ==
    IF s = <<>> THEN <<x>>
    ELSE IF Before(x, s[1], reverse) THEN <<x>> \o s
    ELSE <<s[1]>> \o Insert(Tail(s), x, reverse)

\* sorted with a fault: the reverse flag is not passed on (always ascending)
RECURSIVE sorted_ascending(_, _)
sorted_ascending(s, reverse) ==
    IF s = <<>> THEN <<>>
    ELSE Insert(sorted_ascending(SubSeq(s, 1, Len(s) - 1), reverse),
                s[Len(s)], FALSE)

RECURSIVE sorted(_, _)
sorted(s, reverse) ==
    IF s = <<>> THEN <<>>
    ELSE Insert(sorted(SubSeq(s, 1, Len(s) - 1), reverse), s[Len(s)], reverse)

\* SetOrders with a fault: list(data) in place of list(set(data))
SetOrders_list(s) == {s}

\* line 33: list(set(data)), in any iteration order of the set
SetOrders(s) == Orders(Range(s))

\* group_data with a fault: the counted list is returned without sorting it
group_data_unsorted(s, reverse) ==
    {counted(s, cats) : cats \in Orders(Range(s))}

\* lines 25-34: the lists group_data can return
group_data(s, reverse) ==
    {sorted(counted(s, cats), reverse) : cats \in SetOrders(s)}

-----------------------------------------------------------------------------
(* The test caller: one call of generate_synthetic_data, then calls of     *)
(* group_data on its result (Tests.test_generate_synthetic_data,           *)
(* Tests.test_group_data).                                                 *)

\* the weight list of the tests (lines 113 and 133)
TestCategories == <<<<"A", 1>>, <<"B", 5>>, <<"C", 10>>>>

Weights == (0 - MaxNegWeight)..MaxWeight

Inputs ==
    {TestCategories} \cup
    UNION {{[i \in 1..k |-> <<Names[i], w[i]>>] : w \in SeqsOfLen(Weights, k)} :
              k \in 0..Len(Names)}

Idle ==
    /\ chart_data = <<>> /\ bars = <<>> /\ points = <<>>
    /\ _frequency = <<>> /\ calls = <<>> /\ ret = <<>>

Init ==
    /\ pc = "start"
    /\ categories \in Inputs
    /\ num_samples \in 0..MaxSamples
    /\ data = <<>>
    /\ error = "none"
    /\ grouped = NoCall
    /\ previous = NoCall
    /\ Idle

Sample ==
    /\ pc = "start"
    /\ LET r == generate_synthetic_data(categories, num_samples, num_samples)
       IN  IF r.error # "none"
           THEN /\ pc' = "failed"
                /\ error' = r.error
                /\ data' = data
           ELSE /\ pc' = "sampled"
                /\ error' = "none"
                /\ data' \in r.data
    /\ UNCHANGED <<categories, num_samples, grouped, previous, chart_data,
                   bars, points, _frequency, calls, ret>>

Group ==
    /\ pc \in {"sampled", "grouped"}
    /\ \E reverse \in BOOLEAN :
         \E out \in group_data(data, reverse) :
            grouped' = [reverse |-> reverse, out |-> out]
    /\ previous' = grouped
    /\ pc' = "grouped"
    /\ UNCHANGED <<categories, num_samples, data, error, chart_data,
                   bars, points, _frequency, calls, ret>>

Next == Sample \/ Group

Spec == Init /\ [][Next]_vars

-----------------------------------------------------------------------------
(* pareto_chart *)

\* lines 59-64: the running sum
RECURSIVE running_sum(_)
running_sum(counts) ==
    IF counts = <<>> THEN <<>>
    ELSE IF Len(counts) = 1 THEN <<counts[1]>>
    ELSE LET cumsum == running_sum(SubSeq(counts, 1, Len(counts) - 1))
         IN  Append(cumsum, counts[Len(counts)] + cumsum[Len(cumsum)])

\* line 66: c / total * 100 for total > 0 and c >= 0, as a reduced fraction
percent(c, total) ==
    LET g == GCD(c * 100, total)
    IN  <<(c * 100) \div g, total \div g>>

\* lines 43-87: what the axes were given and the exception raised, if any
pareto_chart(d) ==
    LET cats == [i \in 1..Len(d) |-> d[i][1]]
        counts == [i \in 1..Len(d) |-> d[i][2]]
        total == sum(counts)
        cumsum == running_sum(counts)
    IN  IF cumsum # <<>> /\ total = 0
        THEN \* line 66 divides by zero after ax1.bar (line 49) has the bars
             [bars |-> [i \in 1..Len(d) |-> <<cats[i], counts[i]>>],
              points |-> <<>>,
              error |-> "ZeroDivisionError"]
        ELSE [bars |-> [i \in 1..Len(d) |-> <<cats[i], counts[i]>>],
              points |-> [i \in 1..Len(d) |->
                             <<cats[i], percent(cumsum[i], total)>>],
              error |-> "none"]

-----------------------------------------------------------------------------
(* A caller of pareto_chart with any list of (name, count) pairs *)

ChartInputs ==
    SeqsUpTo({<<Names[n], c>> : n \in 1..Len(Names), c \in 0..MaxCount}, MaxBars)

InitChart ==
    /\ pc = "chart"
    /\ chart_data \in ChartInputs
    /\ categories = <<>> /\ num_samples = 0 /\ data = <<>>
    /\ error = "none" /\ grouped = NoCall /\ previous = NoCall
    /\ bars = <<>> /\ points = <<>>
    /\ _frequency = <<>> /\ calls = <<>> /\ ret = <<>>

Render ==
    /\ pc = "chart"
    /\ LET r == pareto_chart(chart_data)
       IN  /\ bars' = r.bars
           /\ points' = r.points
           /\ error' = r.error
           /\ pc' = IF r.error = "none" THEN "rendered" ELSE "failed"
    /\ UNCHANGED <<categories, num_samples, data, grouped, previous,
                   chart_data, _frequency, calls, ret>>

NextChart == Render

SpecChart == InitChart /\ [][NextChart]_vars

-----------------------------------------------------------------------------
(* main *)

\* line 94
_categories == <<"A", "B", "C", "D", "E", "F", "G", "H", "I">>
\* line 95
Frequency == <<37, 7, 5, 4, 3, 2, 1, 1, 1>>
\* line 98
NumSamples == 1000

Swap(x, i, j) == [x EXCEPT ![i + 1] = x[j + 1], ![j + 1] = x[i + 1]]

\* random.shuffle(x), from its iteration i down to 1:
\*   for i in reversed(range(1, len(x))): j = randbelow(i + 1); swap x[i], x[j]
\* the first `free` iterations draw any j, the later ones draw j = i
RECURSIVE shuffle(_, _, _)
shuffle(x, i, free) ==
    IF i < 1 THEN {x}
    ELSE UNION {shuffle(Swap(x, i, j), i - 1, IF free > 0 THEN free - 1 ELSE 0) :
                   j \in IF free > 0 THEN 0..i ELSE {i}}

InitMain ==
    /\ pc = "main"
    /\ categories = <<>> /\ num_samples = 0 /\ data = <<>>
    /\ error = "none" /\ grouped = NoCall /\ previous = NoCall
    /\ chart_data = <<>> /\ bars = <<>> /\ points = <<>>
    /\ _frequency = <<>> /\ calls = <<>> /\ ret = <<>>

\* lines 94-98
MainSetup ==
    /\ pc = "main"
    /\ _frequency' \in shuffle(Frequency, Len(Frequency) - 1, MaxShuffleSteps)
    /\ categories' = [i \in 1..Len(_categories) |-> <<_categories[i], _frequency'[i]>>]
    /\ num_samples' = NumSamples
    /\ pc' = "setup"
    /\ UNCHANGED <<data, error, grouped, previous, chart_data, bars, points,
                   calls, ret>>

\* line 99
MainSample ==
    /\ pc = "setup"
    /\ LET r == generate_synthetic_data(categories, num_samples, MaxPeriod)
       IN  IF r.error # "none"
           THEN pc' = "failed" /\ error' = r.error /\ data' = data
           ELSE pc' = "sampled" /\ error' = "none" /\ data' \in r.data
    /\ calls' = Append(calls, "generate_synthetic_data")
    /\ UNCHANGED <<categories, num_samples, grouped, previous, chart_data,
                   bars, points, _frequency, ret>>

\* MainGroup with a fault: main passes reverse=False
MainGroup_ascending ==
    /\ pc = "sampled"
    /\ \E out \in {sorted(counted(data, cats), FALSE) : cats \in Orders(Range(data))} :
          grouped' = [reverse |-> FALSE, out |-> out]
    /\ previous' = grouped
    /\ calls' = Append(calls, "group_data")
    /\ pc' = "grouped"
    /\ UNCHANGED <<categories, num_samples, data, error, chart_data, bars,
                   points, _frequency, ret>>

\* line 100: reverse takes its default, True
MainGroup ==
    /\ pc = "sampled"
    /\ \E out \in group_data(data, TRUE) :
          grouped' = [reverse |-> TRUE, out |-> out]
    /\ previous' = grouped
    /\ calls' = Append(calls, "group_data")
    /\ pc' = "grouped"
    /\ UNCHANGED <<categories, num_samples, data, error, chart_data, bars,
                   points, _frequency, ret>>

\* line 102
MainRender ==
    /\ pc = "grouped"
    /\ chart_data' = grouped.out
    /\ LET r == pareto_chart(grouped.out)
       IN  /\ bars' = r.bars
           /\ points' = r.points
           /\ error' = r.error
           /\ pc' = IF r.error = "none" THEN "rendered" ELSE "failed"
    /\ calls' = Append(calls, "pareto_chart")
    /\ UNCHANGED <<categories, num_samples, data, grouped, previous,
                   _frequency, ret>>

\* line 103
MainReturn ==
    /\ pc = "rendered"
    /\ ret' = <<0>>
    /\ pc' = "done"
    /\ UNCHANGED <<categories, num_samples, data, error, grouped, previous,
                   chart_data, bars, points, _frequency, calls>>

NextMain == MainSetup \/ MainSample \/ MainGroup \/ MainRender \/ MainReturn

SpecMain == InitMain /\ [][NextMain]_vars

-----------------------------------------------------------------------------
(* Properties *)

\* number of occurrences of x in s[lo..hi], counted element by element
RECURSIVE OccurrencesIn(_, _, _, _)
OccurrencesIn(s, x, lo, hi) ==
    IF lo > hi THEN 0
    ELSE IF lo = hi THEN (IF s[lo] = x THEN 1 ELSE 0)
    ELSE LET mid == (lo + hi) \div 2
         IN  OccurrencesIn(s, x, lo, mid) + OccurrencesIn(s, x, mid + 1, hi)

Occurrences(s, x) == OccurrencesIn(s, x, 1, Len(s))

NamesOf(cats) == {cats[i][1] : i \in 1..Len(cats)}
PositiveWeights(cats) == cats # <<>> /\ \A i \in 1..Len(cats) : cats[i][2] > 0
Sampled == pc \in {"sampled", "grouped"}

\* C1: for a list W of positive-weight categories and N >= 0,
\* generate_synthetic_data(W, N) returns (raises nothing) a list of exactly N
\* elements, the empty list when N = 0, each element a name of W.
C1_SampleLengthAndNames ==
    PositiveWeights(categories) =>
        /\ pc # "failed"
        /\ Sampled =>
              /\ Len(data) = num_samples
              /\ num_samples = 0 => data = <<>>
              /\ \A i \in 1..Len(data) : data[i] \in NamesOf(categories)

\* C1 witness: the test's weights, N = MaxSamples, and several names drawn
C1_Witness ==
    /\ pc = "sampled"
    /\ categories = TestCategories
    /\ num_samples = MaxSamples
    /\ Len(data) = MaxSamples
    /\ Cardinality(Range(data)) > 1

\* C2: group_data(S) has exactly one pair per distinct name of S and no other
\* name, each count is the number of occurrences of the name in S, the counts
\* sum to len(S), and the output is empty for empty S.
C2_GroupCounts ==
    pc = "grouped" =>
        LET out == grouped.out
        IN  /\ {out[i][1] : i \in 1..Len(out)} = Range(data)
            /\ \A i, j \in 1..Len(out) : out[i][1] = out[j][1] => i = j
            /\ \A i \in 1..Len(out) : out[i][2] = Occurrences(data, out[i][1])
            /\ sum([i \in 1..Len(out) |-> out[i][2]]) = Len(data)
            /\ data = <<>> => out = <<>>

\* C2 witness: a sample with a repeated name and another name, grouped
C2_Witness ==
    /\ pc = "grouped"
    /\ Len(data) = MaxSamples
    /\ Len(grouped.out) > 1
    /\ \E i \in 1..Len(grouped.out) : grouped.out[i][2] > 1

\* C3: the output of group_data is ordered by count, descending with
\* reverse=True and ascending with reverse=False.
C3_SortedByCount ==
    pc = "grouped" =>
        LET out == grouped.out
        IN  \A i \in 1..(Len(out) - 1) :
               IF grouped.reverse THEN out[i][2] >= out[i + 1][2]
                                  ELSE out[i][2] <= out[i + 1][2]

\* C3 witness: the same sample grouped ascending, then descending, with
\* different counts at the two ends
C3_Witness ==
    /\ pc = "grouped"
    /\ previous # NoCall
    /\ ~previous.reverse
    /\ grouped.reverse
    /\ Len(grouped.out) > 1
    /\ grouped.out[1][2] > grouped.out[Len(grouped.out)][2]
    /\ previous.out[1][2] < previous.out[Len(previous.out)][2]

InvalidWeights(cats) ==
    \/ \E i \in 1..Len(cats) : cats[i][2] <= 0
    \/ total_frequency(cats) = 0

\* C5: called with a zero or negative weight, or with weights summing to zero,
\* the sampler raises InvalidWeight and produces no samples.
C5_InvalidWeightRaised ==
    (pc # "start" /\ InvalidWeights(categories)) =>
        /\ pc = "failed"
        /\ error = "InvalidWeight"
        /\ data = <<>>

\* C6: for k uniquely named positive-weight categories and N >= k samples,
\* group_data returns exactly k pairs, one per category of the weight set.
C6_EveryCategoryGrouped ==
    (/\ pc = "grouped"
     /\ PositiveWeights(categories)
     /\ num_samples >= Len(categories)) =>
        /\ Len(grouped.out) = Len(categories)
        /\ {grouped.out[i][1] : i \in 1..Len(grouped.out)} = NamesOf(categories)

\* C7: for the weights A:1, B:5, C:10, group_data(data, reverse=False) returns
\* a list whose first count is strictly less than its last count.
C7_FirstBelowLast ==
    (/\ pc = "grouped"
     /\ categories = TestCategories
     /\ num_samples = MaxSamples
     /\ ~grouped.reverse) =>
        grouped.out[1][2] < grouped.out[Len(grouped.out)][2]

CountsOf(out) == [i \in 1..Len(out) |-> out[i][2]]

\* C8: a call of group_data leaves S unchanged, and two calls on the same S
\* with the same reverse flag return the same (name, count) pairs, in orders
\* that differ at most among pairs of equal count.
C8_Repeatable ==
    [][pc' = "grouped" =>
          /\ data' = data
          /\ (previous' # NoCall /\ previous'.reverse = grouped'.reverse) =>
                /\ Range(previous'.out) = Range(grouped'.out)
                /\ Len(previous'.out) = Len(grouped'.out)
                /\ CountsOf(previous'.out) = CountsOf(grouped'.out)]_vars

\* C8 witness: two calls with the same flag whose results order a tie differently
C8_Witness ==
    /\ pc = "grouped"
    /\ previous # NoCall
    /\ previous.reverse = grouped.reverse
    /\ previous.out # grouped.out

Rendered == pc \in {"rendered", "failed"}

\* C4: for a non-empty list of (name, count) pairs with counts >= 0,
\* pareto_chart's division by the total is defined and the last cumulative
\* percentage is exactly 100.
C4_FinalPercentageIs100 ==
    (Rendered /\ chart_data # <<>>) =>
        /\ error = "none"
        /\ Len(points) = Len(chart_data)
        /\ points[Len(points)][2] = <<100, 1>>

\* sum of the counts of d at positions 1..i
RECURSIVE PrefixCount(_, _)
PrefixCount(d, i) == IF i = 0 THEN 0 ELSE d[i][2] + PrefixCount(d, i - 1)

\* bar i is input pair i, and point i is input name i with p/q such that
\* p/q = (sum of the counts at positions 1..i) / total * 100
OrderKept ==
    /\ bars = chart_data
    /\ Len(points) = Len(chart_data)
    /\ \A i \in 1..Len(chart_data) :
          /\ points[i][1] = chart_data[i][1]
          /\ points[i][2][2] > 0
          /\ points[i][2][1] * PrefixCount(chart_data, Len(chart_data))
                = 100 * PrefixCount(chart_data, i) * points[i][2][2]

\* C9: pareto_chart keeps the caller's order: for every input list, bar i has
\* the i-th input name and count, and point i is the i-th input name with the
\* sum of the counts at positions 0..i divided by the total, times 100.
C9_OrderKept == Rendered => OrderKept

\* The same for the inputs whose total is not zero (those pareto_chart plots)
OrderKeptWhenPlotted == pc = "rendered" => OrderKept

Stages == <<"generate_synthetic_data", "group_data", "pareto_chart">>

IsPermutation(s, t) ==
    /\ Len(s) = Len(t)
    /\ \A v \in Range(s) \cup Range(t) : Occurrences(s, v) = Occurrences(t, v)

StagesDone ==
    CASE pc \in {"main", "setup"} -> 0
      [] pc = "sampled" -> 1
      [] pc = "grouped" -> 2
      [] pc \in {"rendered", "done"} -> 3
      [] OTHER -> 0 - 1

====
